---------------------------- MODULE Spec2Model ----------------------------
(***************************************************************************)
(* Validated value-object construction of the Advanced-TDD repository:     *)
(* the Email value object (structural validation, normalisation, the       *)
(* anti-spam policy check) and the User aggregate built from it.           *)
(*                                                                         *)
(* Strings are sequences of characters.  The characters of the model are   *)
(*    "a"   a lower-case letter                                            *)
(*    "A"   an upper-case letter whose lower case is "a"                   *)
(*    "I"   U+0130, the upper-case letter whose lower case is the two      *)
(*          code units U+0069 U+0307, written <<"i", "^">>                 *)
(*    "@"   "."   " "                                                      *)
(*    "a*"  a run of RunLen lower-case letters, which makes the strings    *)
(*          near the 254 limit expressible in a few characters             *)
(* A call is followed from its invocation to its completion; an async      *)
(* function takes one step up to its await and one step after it.          *)
(***************************************************************************)
EXTENDS Integers, Sequences, FiniteSets, TLC

(* ------------------------------ bounds --------------------------------- *)

\* longest unpadded input string, in model characters
MaxCore == 5
\* widest margin of blanks put around an input string
MaxPad == 1

(* ---------------------- strings (JavaScript) --------------------------- *)

MaxEmailLength == 254

\* the run "a*" stands for this many letters: "a*@a.a" is exactly at the limit
RunLen == MaxEmailLength - 4

\* the characters of the short input strings
Alphabet == {"a", "A", "@", ".", " "}

\* the characters that follow the run in the long input strings
LongAlphabet == {"a", "I", "@", "."}

\* String.prototype.length contribution of one model character
Width(c) == IF c = "a*" THEN RunLen ELSE 1

RECURSIVE length(_)
length(s) == IF s = <<>> THEN 0 ELSE Width(Head(s)) + length(Tail(s))

\* the characters String.prototype.trim strips and the regular expression's \s matches
IsWhiteSpace(c) == c = " "

RECURSIVE trimStart(_)
trimStart(s) ==
    IF s # <<>> /\ IsWhiteSpace(Head(s)) THEN trimStart(Tail(s)) ELSE s

RECURSIVE trimEnd(_)
trimEnd(s) ==
    IF s # <<>> /\ IsWhiteSpace(s[Len(s)])
    THEN trimEnd(SubSeq(s, 1, Len(s) - 1))
    ELSE s

trim(s) == trimEnd(trimStart(s))

\* String.prototype.toLowerCase of one character (Unicode SpecialCasing:
\* U+0130 lower-cases to two code units)
LowerChar(c) ==
    CASE c = "A" -> <<"a">>
      [] c = "I" -> <<"i", "^">>
      [] OTHER   -> <<c>>

RECURSIVE toLowerCase(_)
toLowerCase(s) ==
    IF s = <<>> THEN <<>> ELSE LowerChar(Head(s)) \o toLowerCase(Tail(s))

\* s.includes('..')
hasConsecutiveDots(s) ==
    \E i \in 1 .. Len(s) - 1 : s[i] = "." /\ s[i + 1] = "."

\* the character class [^\s@]
NotSpaceNorAt(c) == ~IsWhiteSpace(c) /\ c # "@"

AllNotSpaceNorAt(s, from, to) ==
    \A k \in from .. to : NotSpaceNorAt(s[k])

\* the pattern with [^\s] in the place of [^\s@] after the '@'
EMAIL_REGEX_test_AtInDomain(s) ==
    \E i \in 2 .. Len(s) - 3 :
      \E j \in i + 2 .. Len(s) - 1 :
        /\ s[i] = "@"
        /\ s[j] = "."
        /\ AllNotSpaceNorAt(s, 1, i - 1)
        /\ \A k \in (i + 1 .. j - 1) \cup (j + 1 .. Len(s)) : ~IsWhiteSpace(s[k])

\* /^[^\s@]+@[^\s@]+\.[^\s@]+$/.test(s): i is the position of the '@',
\* j the position of the '.' the pattern's literal dot matches
EMAIL_REGEX_test(s) ==
    \E i \in 2 .. Len(s) - 3 :
      \E j \in i + 2 .. Len(s) - 1 :
        /\ s[i] = "@"
        /\ s[j] = "."
        /\ AllNotSpaceNorAt(s, 1, i - 1)
        /\ AllNotSpaceNorAt(s, i + 1, j - 1)
        /\ AllNotSpaceNorAt(s, j + 1, Len(s))

isValid(s) ==
    /\ length(s) > 0
    /\ length(s) <= MaxEmailLength
    /\ ~hasConsecutiveDots(s)
    /\ EMAIL_REGEX_test(s)

(* ------------------------------ inputs --------------------------------- *)

RECURSIVE StringsUpTo(_, _)
StringsUpTo(chars, n) ==
    IF n = 0 THEN {<<>>}
    ELSE LET shorter == StringsUpTo(chars, n - 1)
         IN  shorter \cup {<<c>> \o s : c \in chars, s \in {t \in shorter : Len(t) = n - 1}}

\* every string of at most MaxCore characters
ShortStrings == StringsUpTo(Alphabet, MaxCore)

\* the strings near the length limit: a run of RunLen letters and at most
\* MaxCore characters after it
LongStrings == {<<"a*">> \o s : s \in StringsUpTo(LongAlphabet, MaxCore)}

Spaces(n) == [k \in 1 .. n |-> " "]

\* each of these strings, bare and between two margins of up to MaxPad blanks
InputStrings ==
    {Spaces(p) \o s \o Spaces(p) : s \in ShortStrings \cup LongStrings, p \in 0 .. MaxPad}

\* the inputs of the aggregate's operations: the addresses of the unit tests,
\* by shape, and one of the longest addresses, with a letter whose lower case
\* is two code units long
UserEmailStrings ==
    { <<"a", "@", "a", ".", "a">>,              \* 'john@gmail.com'
      <<"A", "@", "a", ".", "a">>,              \* 'JOHN@gmail.com'
      <<" ", "a", "@", "a", ".", "a", " ">>,    \* '  john@gmail.com  '
      <<"a", ".", "a">>,                        \* 'not-an-email'
      <<"a", "@", ".", ".", "a">>,              \* 'john@gmail..com'
      <<"a*", "a", "@", "a", ".", "a">>,        \* 255 characters
      <<"a*", "@", "a", ".", "I">>,             \* 254 characters, a capital dotted I
      <<>> }                                    \* ''

(* ------------------------- the Email value object ---------------------- *)

NoError == "none"
InvalidFormat == "Invalid email format"
Blocked == "Email is blocked or blacklisted"
\* the error the anti-spam service's own promise rejected with
GateError == "anti-spam service error"

\* the completion of a call: how it completed ("returned" / "thrown" for a
\* synchronous call, "fulfilled" / "rejected" for a promise), the Error's
\* message (its fixed text and the text interpolated after it), and the
\* Email or the User it produced, if any
Completion(how, error, detail, email, user) ==
    [how |-> how, error |-> error, detail |-> detail, email |-> email, user |-> user]

NoOutcome == Completion("none", NoError, <<>>, {}, {})

\* the constructor without the check for consecutive dots
Email_constructor_NoDotsCheck(email) ==
    IF ~(/\ length(trim(email)) > 0
         /\ length(trim(email)) <= MaxEmailLength
         /\ EMAIL_REGEX_test(trim(email)))
    THEN Completion("thrown", InvalidFormat, email, {}, {})
    ELSE Completion("returned", NoError, <<>>, {toLowerCase(trim(email))}, {})

\* the constructor storing the trimmed string as it is
Email_constructor_NoLowerCase(email) ==
    IF ~isValid(trim(email))
    THEN Completion("thrown", InvalidFormat, email, {}, {})
    ELSE Completion("returned", NoError, <<>>, {trim(email)}, {})

\* constructor(email): the validation is of the trimmed string, the value
\* is the trimmed string lower-cased
Email_constructor(email) ==
    IF ~isValid(trim(email))
    THEN Completion("thrown", InvalidFormat, email, {}, {})
    ELSE Completion("returned", NoError, <<>>, {toLowerCase(trim(email))}, {})

\* createWithAntiSpamCheck without its format check
PassesFormatCheck_Skipped(email) == TRUE

\* the first half of createWithAntiSpamCheck's body, up to its await: TRUE
\* when the format check lets the call go on to the anti-spam service
PassesFormatCheck(email) == isValid(email)

\* the argument createWithAntiSpamCheck hands to antiSpamService.isBlocked
isBlockedArgument(email) == email

\* a throw inside an async function rejects its promise; a return fulfils it
AsPromise(completion) ==
    [completion EXCEPT !.how = IF @ = "thrown" THEN "rejected" ELSE "fulfilled"]

\* createWithAntiSpamCheck with the test of isBlocked negated
AfterIsBlocked_Negated(email, gate) ==
    CASE gate = "failed" -> Completion("rejected", GateError, <<>>, {}, {})
      [] gate = "false"  -> Completion("rejected", Blocked, email, {}, {})
      [] OTHER           -> AsPromise(Email_constructor(email))

\* createWithAntiSpamCheck wrapping the string it was given, as it is
AfterIsBlocked_RawValue(email, gate) ==
    CASE gate = "failed" -> Completion("rejected", GateError, <<>>, {}, {})
      [] gate = "true"   -> Completion("rejected", Blocked, email, {}, {})
      [] OTHER           -> Completion("fulfilled", NoError, <<>>, {email}, {})

\* the second half of createWithAntiSpamCheck's body, after the await has
\* settled with gate ("true" / "false", or "failed" when isBlocked rejected)
AfterIsBlocked(email, gate) ==
    CASE gate = "failed" -> Completion("rejected", GateError, <<>>, {}, {})
      [] gate = "true"   -> Completion("rejected", Blocked, email, {}, {})
      [] OTHER           -> AsPromise(Email_constructor(email))

\* what JavaScript writes for a value that is not there
Undefined == <<"undefined">>

\* s.split(separator): the pieces of s between the occurrences of separator
RECURSIVE split(_, _)
split(s, separator) ==
    IF \A k \in 1 .. Len(s) : s[k] # separator
    THEN <<s>>
    ELSE LET first == CHOOSE k \in 1 .. Len(s) :
                        /\ s[k] = separator
                        /\ \A j \in 1 .. k - 1 : s[j] # separator
         IN  <<SubSeq(s, 1, first - 1)>> \o split(SubSeq(s, first + 1, Len(s)), separator)

\* pieces[index], counting from 0
ElementAt(pieces, index) ==
    IF index + 1 \in 1 .. Len(pieces) THEN pieces[index + 1] ELSE Undefined

\* getDomain returning the piece before the '@'
getDomain_FirstPiece(value) == ElementAt(split(value, "@"), 0)

\* email.getDomain()
getDomain(value) == ElementAt(split(value, "@"), 1)

\* email.getLocalPart()
getLocalPart(value) == ElementAt(split(value, "@"), 0)

(* ------------------------- the User aggregate -------------------------- *)

\* the display names given to User.createWithValidation
NameStrings == {"John Doe", "Test User", ""}

NameError == "Invalid user name"

\* UserName.create(nameString): a validated name, or a throw
UserName_isValid(nameString) == nameString # ""

UserName_create(nameString) ==
    IF UserName_isValid(nameString)
    THEN [how |-> "returned", name |-> {nameString}]
    ELSE [how |-> "thrown", name |-> {}]

\* the optional id argument: absent, or a UserId the caller supplies
NoId == <<"undefined", 0>>
IdArguments == {NoId, <<"supplied", 1>>}

\* UserId.generate(): an identity no other User has
UserId_generate(n) == <<"generated", n>>

\* the last instant of the clock
MaxClock == 2

\* the most Users there are at once
MaxUsers == 2

\* new User(props)
UserProps(id, email, name, createdAt, updatedAt) ==
    [id |-> id, email |-> email, name |-> name,
     createdAt |-> createdAt, updatedAt |-> updatedAt]

\* User.create generating an identity whether or not it was given one
User_create_AlwaysGenerates(email, name, id, t, n) ==
    UserProps(UserId_generate(n), email, name, t, t)

\* User.create(email, name, id?) at instant t, n the next identity to generate
User_create(email, name, id, t, n) ==
    UserProps(IF id # NoId THEN id ELSE UserId_generate(n), email, name, t, t)

\* User.reconstitute(props)
reconstitute(props) ==
    UserProps(props.id, props.email, props.name, props.createdAt, props.updatedAt)

\* updateEmail keeping the instant of the User it was called on
updateEmail_KeepsUpdatedAt(props, newEmail, t) ==
    UserProps(props.id, newEmail, props.name, props.createdAt, props.updatedAt)

\* user.updateEmail(newEmail) at instant t: the props of the User it returns
updateEmail(props, newEmail, t) ==
    UserProps(props.id, newEmail, props.name, props.createdAt, t)

\* updateName refreshing createdAt in the place of updatedAt
updateName_StampsCreatedAt(props, newName, t) ==
    UserProps(props.id, props.email, newName, t, props.updatedAt)

\* user.updateName(newName) at instant t: the props of the User it returns
updateName(props, newName, t) ==
    UserProps(props.id, props.email, newName, props.createdAt, t)

\* UserId.equals(other): the same identity value
UserId_equals(id, other) == id = other

\* equals comparing what the two Users hold instead of who they are
User_equals_ByFields(user, other) ==
    user.email = other.email /\ user.name = other.name

\* user.equals(other), other a User
User_equals(user, other) == UserId_equals(user.id, other.id)

\* the UserName instances there are to pass: the names UserName.create accepts
UserNames == UNION {UserName_create(nameString).name : nameString \in NameStrings}

(* ---------------------------- calculateTotal --------------------------- *)

\* the largest price and the largest quantity
MaxAmount == 2

\* the most items in an array
MaxItems == 2

\* the values a property of an item may have: a number, a string such as
\* 'invalid', or nothing (the property is missing)
Number(n) == [type |-> "number", n |-> n]
NotANumber == {[type |-> "string", n |-> 0], [type |-> "undefined", n |-> 0]}
PropertyValues == {Number(n) : n \in 0 .. MaxAmount} \cup NotANumber

\* the elements of an array: objects with a price and a quantity, and null
NullItem == [kind |-> "null", price |-> Number(0), quantity |-> Number(0)]
ObjectItems ==
    {[kind |-> "object", price |-> p, quantity |-> q] :
       p \in PropertyValues, q \in PropertyValues}
Items == ObjectItems \cup {NullItem}

\* the arguments of calculateTotal: arrays, and values that are no arrays
\* ('not an array', undefined, an object with a length)
ArraysUpTo(n) == UNION {[1 .. k -> Items] : k \in 0 .. n}
NonArrays ==
    {[isArray |-> FALSE, what |-> w, elements |-> <<>>] :
       w \in {"string", "undefined", "object"}}
Arguments ==
    {[isArray |-> TRUE, what |-> "array", elements |-> a] : a \in ArraysUpTo(MaxItems)}
      \cup NonArrays

ItemsMustBeArray == "Items must be an array"
EachItemNumeric == "Each item must have numeric price and quantity"
TypeError == "TypeError: Cannot read properties of null"

\* typeof value
typeof(value) == value.type

\* the callback adding the price alone
Amount_PriceOnly(item) == item.price.n

\* item.price * item.quantity
Amount(item) == item.price.n * item.quantity.n

\* the test of the callback, passed: both properties are numbers
IsNumeric(item) ==
    typeof(item.price) = "number" /\ typeof(item.quantity) = "number"

\* items.reduce(callback, 0) from element k on, total the accumulator
RECURSIVE reduce(_, _, _)
reduce(elements, k, total) ==
    IF k > Len(elements)
    THEN [how |-> "returned", error |-> NoError, total |-> {total}]
    ELSE IF elements[k].kind = "null"
         THEN [how |-> "thrown", error |-> TypeError, total |-> {}]
         ELSE IF ~IsNumeric(elements[k])
              THEN [how |-> "thrown", error |-> EachItemNumeric, total |-> {}]
              ELSE reduce(elements, k + 1, total + Amount(elements[k]))

\* calculateTotal(items)
calculateTotal(items) ==
    IF ~items.isArray
    THEN [how |-> "thrown", error |-> ItemsMustBeArray, total |-> {}]
    ELSE reduce(items.elements, 1, 0)

(* ----------------------- the BDD step definitions ---------------------- *)

\* s.includes(character)
includes(s, character) == \E k \in 1 .. Len(s) : s[k] = character

\* the examples table of 'Validate email formats', the addresses by shape
Examples ==
    << [email |-> <<"a", "@", "a", ".", "a">>, result |-> "success"],
       [email |-> <<"a", ".", "a", "@", "a", ".", "a">>, result |-> "success"],
       [email |-> <<"a", ".", "a">>, result |-> "failure"],
       [email |-> <<"@", "a", "-", "a", ".", "a">>, result |-> "failure"],
       [email |-> <<"a", "-", "a", "-", "a", ".", "a">>, result |-> "failure"] >>

\* the addresses the feature file gives to the steps
ScenarioEmails == {Examples[k].email : k \in DOMAIN Examples}

\* a JavaScript object with the properties the steps use, each set or
\* missing; kind tells an object from null and from undefined
Object(kind, id, email, name, createdAt, updatedAt) ==
    [kind |-> kind, id |-> id, email |-> email, name |-> name,
     createdAt |-> createdAt, updatedAt |-> updatedAt]
UndefinedValue == Object("undefined", {}, {}, {}, {}, {})
NullValue == Object("null", {}, {}, {}, {}, {})
EmptyObject == Object("object", {}, {}, {}, {}, {})

\* { ...object }: null and undefined spread to nothing
Spread(object) == IF object.kind = "object" THEN object ELSE EmptyObject

InvalidEmailFormat == "Invalid email format"
ReadOfUndefined == "TypeError: Cannot read properties of undefined"

\* the module's variables when it is loaded; step is the step that ran last
\* and initialized whether 'the system is initialized' has run
ModuleLoaded ==
    [userData |-> UndefinedValue, createdUser |-> UndefinedValue, error |-> {},
     step |-> "none", initialized |-> FALSE]

\* { email, name }
UserData(email, name) == Object("object", {}, {email}, {name}, {}, {})

\* what the try block of 'I attempt to create a new user' throws before the
\* user is made, if it throws
AttemptThrows(userData) ==
    IF userData.kind # "object" \/ userData.email = {}
    THEN {ReadOfUndefined}
    ELSE IF \E email \in userData.email : ~includes(email, "@")
         THEN {InvalidEmailFormat}
         ELSE {}

\* { id, ...userData, createdAt, updatedAt }
NewUser(id, userData, createdAt, updatedAt) ==
    [Spread(userData) EXCEPT !.id = {id}, !.createdAt = {createdAt},
                             !.updatedAt = {updatedAt}]

\* { ...createdUser, email: newEmail, updatedAt }
UpdatedUser(createdUser, newEmail, updatedAt) ==
    [Spread(createdUser) EXCEPT !.email = {newEmail}, !.updatedAt = {updatedAt}]

\* assert.ok(value)
Truthy(object) == object.kind = "object"

\* Then('the result should be {string}'): the assertions pass
ResultShouldBe(state, expectedResult) ==
    IF expectedResult = "success"
    THEN Truthy(state.createdUser) /\ state.error = {}
    ELSE state.error # {} /\ state.createdUser = NullValue

(* ------------------------ the injection container ---------------------- *)

\* the most registrations of one token
MaxRegistrations == 3

\* process.env.ANTI_SPAM_API_KEY: not set ({}), or a string, empty or not
ApiKeys == {{}, {""}, {"secret"}}

Environments == {"test", "integration", "production"}

ApiKeyRequired == "ANTI_SPAM_API_KEY environment variable is required"

\* { useClass: MockAntiSpamAdapter } and { useValue: new RealAntiSpamAdapter(apiKey) }
MockRegistration == [adapter |-> "MockAntiSpamAdapter", apiKey |-> {}]
RealRegistration(apiKey) == [adapter |-> "RealAntiSpamAdapter", apiKey |-> {apiKey}]

NoSetup == [environment |-> "none", how |-> "none", error |-> NoError]

\* the registrations of 'AntiSpamPort' in order, the variable of the
\* environment, and the last call of setupDIContainer
EmptyContainer == [registrations |-> <<>>, apiKey |-> {}, last |-> NoSetup]

\* value || fallback, value a string or undefined
OrElse(value, fallback) == IF value = {} \/ value = {""} THEN {fallback} ELSE value

\* setupDIContainer taking the integration branch for production too
setupDIContainer_AlwaysFallsBack(environment, apiKey) ==
    IF environment = "test"
    THEN [how |-> "returned", error |-> NoError, register |-> {MockRegistration}]
    ELSE [how |-> "returned", error |-> NoError,
          register |-> {RealRegistration(k) : k \in OrElse(apiKey, "test-key")}]

\* setupDIContainer(environment), apiKey the variable of the environment:
\* how it ends and what it registers
setupDIContainer(environment, apiKey) ==
    IF environment = "test"
    THEN [how |-> "returned", error |-> NoError, register |-> {MockRegistration}]
    ELSE IF environment = "integration"
         THEN [how |-> "returned", error |-> NoError,
               register |-> {RealRegistration(k) : k \in OrElse(apiKey, "test-key")}]
         ELSE IF apiKey = {} \/ apiKey = {""}
              THEN [how |-> "thrown", error |-> ApiKeyRequired, register |-> {}]
              ELSE [how |-> "returned", error |-> NoError,
                    register |-> {RealRegistration(k) : k \in apiKey}]

(* ------------------------------ state ---------------------------------- *)

\* the callers that may have a call in flight at the same time
NumCalls == 2
Calls == 1 .. NumCalls

VARIABLES
    calls,      \* calls[c]: the call of caller c, see IdleCall
    emails,     \* the values of the Email instances constructed so far
    users,      \* the User instances constructed so far, in order
    now,        \* the last instant new Date() returned
    nextId,     \* the number of identities UserId.generate() has handed out
    scenario,   \* the shared state of the BDD step definitions
    container   \* the dependency injection container and process.env

vars == <<calls, emails, users, now, nextId, scenario, container>>

\* pc:    "idle", "awaitGate" (suspended at await antiSpamService.isBlocked),
\*        "awaitEmail" (createWithValidation suspended at await
\*        Email.createWithAntiSpamCheck, whose promise has settled), "done"
\* op:    the operation called
\* gate:  the state of the isBlocked promise: "none", "pending", "true",
\*        "false", "failed"
\* gateArgs: the arguments isBlocked was called with, in order
\* inner: the completion of the Email.createWithAntiSpamCheck call made by
\*        createWithValidation
\* nameChecked: UserName.create has been called
\* receiver: the User (its position in users) a method was called on, 0 for
\*        a static method
\* emailArg, nameArg, propsArg: the Email, UserName or props passed, if any
\* at:    the instant the call read from the clock, if it read it
\* parts: what getLocalPart() and getDomain() of the Email the call built
\*        returned, once the caller has asked
\* items, total: the argument of calculateTotal and the number it returned
IdleCall ==
    [pc |-> "idle", op |-> "none", emailString |-> <<>>, nameString |-> "",
     id |-> NoId, gate |-> "none", gateArgs |-> <<>>, inner |-> NoOutcome,
     nameChecked |-> FALSE, receiver |-> 0, emailArg |-> {}, nameArg |-> {},
     propsArg |-> {}, at |-> {}, parts |-> {}, items |-> {}, total |-> {},
     outcome |-> NoOutcome]

Init ==
    /\ calls = [c \in Calls |-> IdleCall]
    /\ emails = {}
    /\ users = <<>>
    /\ now = 0
    /\ nextId = 0
    /\ scenario = ModuleLoaded
    /\ container = EmptyContainer

(* ----------------------------- operations ------------------------------ *)

\* Email.create(email) / new Email(email)
Email_create(c, Strings) ==
    /\ calls[c].pc = "idle"
    /\ \E email \in Strings :
         LET r == Email_constructor(email)
         IN  /\ calls' = [calls EXCEPT ![c] =
                            [@ EXCEPT !.pc = "done", !.op = "Email.create",
                                      !.emailString = email, !.outcome = r]]
             /\ emails' = emails \cup r.email
    /\ UNCHANGED <<users, now, nextId>>
    /\ UNCHANGED <<scenario, container>>

\* the body of Email.createWithAntiSpamCheck(email, antiSpamService) up to
\* the await, run by call c on behalf of operation op: the call record c
\* has after it
AntiSpamCheckStarted(call, op, email) ==
    IF ~PassesFormatCheck(email)
    THEN [call EXCEPT !.op = op, !.emailString = email,
                      !.pc = IF op = "User.createWithValidation" THEN "awaitEmail" ELSE "done",
                      !.inner = IF op = "User.createWithValidation"
                                THEN Completion("rejected", InvalidFormat, email, {}, {})
                                ELSE @,
                      !.outcome = IF op = "User.createWithValidation"
                                  THEN @
                                  ELSE Completion("rejected", InvalidFormat, email, {}, {})]
    ELSE [call EXCEPT !.op = op, !.emailString = email,
                      !.pc = "awaitGate",
                      !.gate = "pending",
                      !.gateArgs = Append(@, isBlockedArgument(email))]

\* Email.createWithAntiSpamCheck(email, antiSpamService), up to the await
createWithAntiSpamCheck(c, Strings) ==
    /\ calls[c].pc = "idle"
    /\ \E email \in Strings :
         calls' = [calls EXCEPT ![c] =
                     AntiSpamCheckStarted(@, "Email.createWithAntiSpamCheck", email)]
    /\ UNCHANGED <<emails, users, now, nextId>>
    /\ UNCHANGED <<scenario, container>>

GateAnswers == {"true", "false", "failed"}

\* the promise of antiSpamService.isBlocked settles: it resolves true or
\* false, or it rejects ("failed"); a promise that never settles is a call
\* for which this step never happens
isBlocked_settles(c) ==
    /\ calls[c].pc = "awaitGate"
    /\ calls[c].gate = "pending"
    /\ \E answer \in GateAnswers :
         calls' = [calls EXCEPT ![c] = [@ EXCEPT !.gate = answer]]
    /\ UNCHANGED <<emails, users, now, nextId>>
    /\ UNCHANGED <<scenario, container>>

\* the email a call sees after its await if the parameter were kept in a
\* place all calls share: that of another call suspended with it
EmailAfterAwait_Shared(c) ==
    LET others == {d \in Calls \ {c} : calls[d].pc = "awaitGate"}
    IN  IF others = {}
        THEN calls[c].emailString
        ELSE calls[CHOOSE d \in others : TRUE].emailString

\* the email call c sees after its await: its own parameter, a local of its
\* activation
EmailAfterAwait(c) == calls[c].emailString

\* Email.createWithAntiSpamCheck, from the await on; its promise settles,
\* for the caller or for the createWithValidation that awaits it
createWithAntiSpamCheck_resume(c) ==
    /\ calls[c].pc = "awaitGate"
    /\ calls[c].gate \in GateAnswers
    /\ LET r == AfterIsBlocked(EmailAfterAwait(c), calls[c].gate)
       IN  /\ calls' = [calls EXCEPT ![c] =
                          IF @.op = "User.createWithValidation"
                          THEN [@ EXCEPT !.pc = "awaitEmail", !.inner = r]
                          ELSE [@ EXCEPT !.pc = "done", !.outcome = r]]
           /\ emails' = emails \cup r.email
    /\ UNCHANGED <<users, now, nextId>>
    /\ UNCHANGED <<scenario, container>>

\* the caller of a call that built an Email asks the Email for its local part
\* and its domain
getParts(c) ==
    /\ calls[c].pc = "done"
    /\ calls[c].parts = {}
    /\ \E value \in calls[c].outcome.email :
         calls' = [calls EXCEPT ![c] =
                     [@ EXCEPT !.parts = {[localPart |-> getLocalPart(value),
                                           domain |-> getDomain(value)]}]]
    /\ UNCHANGED <<emails, users, now, nextId>>
    /\ UNCHANGED <<scenario, container>>

\* User.createWithValidation(emailString, nameString, antiSpamService, id?),
\* up to its await: it calls Email.createWithAntiSpamCheck and awaits it
createWithValidation(c, Strings, Names, Ids) ==
    /\ calls[c].pc = "idle"
    /\ \E email \in Strings, nameString \in Names, id \in Ids :
         calls' = [calls EXCEPT ![c] =
                     AntiSpamCheckStarted([@ EXCEPT !.nameString = nameString, !.id = id],
                                          "User.createWithValidation", email)]
    /\ UNCHANGED <<emails, users, now, nextId>>
    /\ UNCHANGED <<scenario, container>>

\* createWithValidation creating the name before it looks at the email
AfterEmail_NameFirst(inner, nameString, user) ==
    IF UserName_create(nameString).how = "thrown"
    THEN [completion |-> Completion("rejected", NameError, <<>>, {}, {}),
          nameChecked |-> TRUE]
    ELSE IF inner.how = "rejected"
         THEN [completion |-> inner, nameChecked |-> TRUE]
         ELSE [completion |-> Completion("fulfilled", NoError, <<>>, {}, {user}),
               nameChecked |-> TRUE]

\* createWithValidation building the User without creating the name first
AfterEmail_NoNameCheck(inner, nameString, user) ==
    IF inner.how = "rejected"
    THEN [completion |-> inner, nameChecked |-> FALSE]
    ELSE [completion |-> Completion("fulfilled", NoError, <<>>, {}, {user}),
          nameChecked |-> FALSE]

\* the body of User.createWithValidation after its await, given the
\* completion of the awaited Email.createWithAntiSpamCheck: the completion
\* of createWithValidation and whether UserName.create was called; user is
\* the position the new User takes in users
AfterEmail(inner, nameString, user) ==
    IF inner.how = "rejected"
    THEN [completion |-> inner, nameChecked |-> FALSE]
    ELSE IF UserName_create(nameString).how = "thrown"
         THEN [completion |-> Completion("rejected", NameError, <<>>, {}, {}),
               nameChecked |-> TRUE]
         ELSE [completion |-> Completion("fulfilled", NoError, <<>>, {}, {user}),
               nameChecked |-> TRUE]

\* new Date(): the clock has not gone back since it was last read
ClockReadings == {t \in now .. now + 1 : t <= MaxClock}

\* User.createWithValidation, from the await on
createWithValidation_resume(c) ==
    /\ calls[c].pc = "awaitEmail"
    /\ LET call == calls[c]
           r == AfterEmail(call.inner, call.nameString, Len(users) + 1)
       IN  IF r.completion.how = "fulfilled"
           THEN /\ Len(users) < MaxUsers
                /\ \E t \in ClockReadings, email \in call.inner.email :
                     /\ calls' = [calls EXCEPT ![c] =
                                    [@ EXCEPT !.pc = "done", !.outcome = r.completion,
                                              !.nameChecked = r.nameChecked,
                                              !.at = {t}]]
                     /\ users' = Append(users,
                                   User_create(email, call.nameString, call.id, t, nextId))
                     /\ now' = t
                     /\ nextId' = IF call.id = NoId THEN nextId + 1 ELSE nextId
           ELSE /\ calls' = [calls EXCEPT ![c] =
                               [@ EXCEPT !.pc = "done", !.outcome = r.completion,
                                         !.nameChecked = r.nameChecked]]
                /\ UNCHANGED <<users, now, nextId>>
    /\ UNCHANGED emails
    /\ UNCHANGED <<scenario, container>>

\* User.create(email, name, id?): email an Email and name a UserName built
\* before
create(c) ==
    /\ calls[c].pc = "idle"
    /\ Len(users) < MaxUsers
    /\ \E email \in emails, name \in UserNames, id \in IdArguments, t \in ClockReadings :
         /\ calls' = [calls EXCEPT ![c] =
                        [@ EXCEPT !.pc = "done", !.op = "User.create",
                                  !.emailArg = {email}, !.nameArg = {name},
                                  !.id = id, !.at = {t},
                                  !.outcome = Completion("returned", NoError, <<>>, {},
                                                         {Len(users) + 1})]]
         /\ users' = Append(users, User_create(email, name, id, t, nextId))
         /\ now' = t
         /\ nextId' = IF id = NoId THEN nextId + 1 ELSE nextId
    /\ UNCHANGED emails
    /\ UNCHANGED <<scenario, container>>

\* the props a repository hands to User.reconstitute: those of a User saved
\* before
StoredProps == {users[u] : u \in 1 .. Len(users)}

\* User.reconstitute(props)
reconstitute_call(c) ==
    /\ calls[c].pc = "idle"
    /\ Len(users) < MaxUsers
    /\ \E props \in StoredProps :
         /\ calls' = [calls EXCEPT ![c] =
                        [@ EXCEPT !.pc = "done", !.op = "User.reconstitute",
                                  !.propsArg = {props},
                                  !.outcome = Completion("returned", NoError, <<>>, {},
                                                         {Len(users) + 1})]]
         /\ users' = Append(users, reconstitute(props))
    /\ UNCHANGED <<emails, now, nextId>>
    /\ UNCHANGED <<scenario, container>>

\* an update method handing back the User it was called on, changed in place
Updated_InPlace(heap, receiver, props) == [heap EXCEPT ![receiver] = props]

\* the Users there are after an update method of the User at receiver has
\* built props: new User(props) is one more User, the others are as they were
Updated(heap, receiver, props) == Append(heap, props)

\* user.updateEmail(newEmail)
updateEmail_call(c) ==
    /\ calls[c].pc = "idle"
    /\ Len(users) < MaxUsers
    /\ \E receiver \in 1 .. Len(users), newEmail \in emails, t \in ClockReadings :
         /\ users' = Updated(users, receiver, updateEmail(users[receiver], newEmail, t))
         /\ calls' = [calls EXCEPT ![c] =
                        [@ EXCEPT !.pc = "done", !.op = "User.updateEmail",
                                  !.receiver = receiver, !.emailArg = {newEmail},
                                  !.at = {t},
                                  !.outcome = Completion("returned", NoError, <<>>, {},
                                                         {Len(users')})]]
         /\ now' = t
    /\ UNCHANGED <<emails, nextId>>
    /\ UNCHANGED <<scenario, container>>

\* user.updateName(newName)
updateName_call(c) ==
    /\ calls[c].pc = "idle"
    /\ Len(users) < MaxUsers
    /\ \E receiver \in 1 .. Len(users), newName \in UserNames, t \in ClockReadings :
         /\ users' = Updated(users, receiver, updateName(users[receiver], newName, t))
         /\ calls' = [calls EXCEPT ![c] =
                        [@ EXCEPT !.pc = "done", !.op = "User.updateName",
                                  !.receiver = receiver, !.nameArg = {newName},
                                  !.at = {t},
                                  !.outcome = Completion("returned", NoError, <<>>, {},
                                                         {Len(users')})]]
         /\ now' = t
    /\ UNCHANGED <<emails, nextId>>
    /\ UNCHANGED <<scenario, container>>

\* the caller has taken the completion of its call and is free to call again
Returned(c) ==
    /\ calls[c].pc = "done"
    /\ calls' = [calls EXCEPT ![c] = IdleCall]
    /\ UNCHANGED <<emails, users, now, nextId>>
    /\ UNCHANGED <<scenario, container>>

\* a call of calculateTotal(items)
calculateTotal_call(c) ==
    /\ calls[c].pc = "idle"
    /\ \E items \in Arguments :
         LET r == calculateTotal(items)
         IN  calls' = [calls EXCEPT ![c] =
                         [@ EXCEPT !.pc = "done", !.op = "calculateTotal",
                                   !.items = {items}, !.total = r.total,
                                   !.outcome = Completion(r.how, r.error, <<>>, {}, {})]]
    /\ UNCHANGED <<emails, users, now, nextId, scenario, container>>

\* the variables of the domain model
domain == <<calls, emails, users, now, nextId>>

\* the two readings of the clock a step makes, one after the other
TwoReadings ==
    {<<t1, t2>> \in ClockReadings \X (now .. MaxClock) : t1 <= t2 /\ t2 <= t1 + 1}

\* Given('the system is initialized')
Given_initialized ==
    /\ scenario' = [scenario EXCEPT !.userData = EmptyObject, !.createdUser = NullValue,
                                    !.error = {}, !.step = "the system is initialized",
                                    !.initialized = TRUE]
    /\ UNCHANGED <<domain, container>>

\* Given('I have valid user data with email {string}')
Given_validUserData ==
    /\ \E email \in ScenarioEmails :
         scenario' = [scenario EXCEPT !.userData = UserData(email, "Test User"),
                                     !.step = "I have valid user data with email"]
    /\ UNCHANGED <<domain, container>>

\* Given('I have user data with invalid email {string}')
Given_invalidUserData ==
    /\ \E email \in ScenarioEmails :
         scenario' = [scenario EXCEPT !.userData = UserData(email, "Test User"),
                                     !.step = "I have user data with invalid email"]
    /\ UNCHANGED <<domain, container>>

\* Given('I have user data with email {string}')
Given_userData ==
    /\ \E email \in ScenarioEmails :
         scenario' = [scenario EXCEPT !.userData = UserData(email, "Test User"),
                                     !.step = "I have user data with email"]
    /\ UNCHANGED <<domain, container>>

\* Given('a user exists with email {string}')
Given_userExists ==
    /\ \E email \in ScenarioEmails, t \in TwoReadings :
         /\ scenario' = [scenario EXCEPT
                           !.userData = UserData(email, "Existing User"),
                           !.createdUser = Object("object", {"123"}, {email},
                                                  {"Existing User"}, {t[1]}, {t[2]}),
                           !.step = "a user exists with email"]
         /\ now' = t[2]
    /\ UNCHANGED <<calls, emails, users, nextId, container>>

\* When('I create a new user')
When_create ==
    /\ \E t \in TwoReadings :
         /\ scenario' = [scenario EXCEPT
                           !.createdUser = NewUser("random", scenario.userData, t[1], t[2]),
                           !.error = {},
                           !.step = "I create a new user"]
         /\ now' = t[2]
    /\ UNCHANGED <<calls, emails, users, nextId, container>>

\* When('I attempt to create a new user')
When_attempt ==
    /\ IF AttemptThrows(scenario.userData) # {}
       THEN /\ scenario' = [scenario EXCEPT
                              !.error = AttemptThrows(scenario.userData),
                              !.createdUser = NullValue,
                              !.step = "I attempt to create a new user"]
            /\ UNCHANGED now
       ELSE \E t \in TwoReadings :
              /\ scenario' = [scenario EXCEPT
                                !.createdUser = NewUser("random", scenario.userData,
                                                        t[1], t[2]),
                                !.error = {},
                                !.step = "I attempt to create a new user"]
              /\ now' = t[2]
    /\ UNCHANGED <<calls, emails, users, nextId, container>>

\* When('I update the user email to {string}')
When_update ==
    /\ \E newEmail \in ScenarioEmails, t \in ClockReadings :
         /\ scenario' = [scenario EXCEPT
                           !.createdUser = UpdatedUser(scenario.createdUser, newEmail, t),
                           !.error = {},
                           !.step = "I update the user email to"]
         /\ now' = t
    /\ UNCHANGED <<calls, emails, users, nextId, container>>

\* the variable ANTI_SPAM_API_KEY is set or unset in the environment
setApiKey ==
    /\ \E apiKey \in ApiKeys \ {container.apiKey} :
         container' = [container EXCEPT !.apiKey = apiKey]
    /\ UNCHANGED <<domain, scenario>>

\* a call of setupDIContainer(environment); container.register adds a
\* registration of the token, and the last one is the one resolved
setupDIContainer_call ==
    /\ Len(container.registrations) < MaxRegistrations
    /\ \E environment \in Environments :
         LET r == setupDIContainer(environment, container.apiKey)
         IN  container' =
               [container EXCEPT
                  !.registrations = IF r.register = {}
                                    THEN @
                                    ELSE Append(@, CHOOSE x \in r.register : TRUE),
                  !.last = [environment |-> environment, how |-> r.how,
                            error |-> r.error]]
    /\ UNCHANGED <<domain, scenario>>

(* --------------------------- specifications ---------------------------- *)

\* the Email value object: one caller, every input string
Next ==
    \/ Email_create(1, InputStrings)
    \/ createWithAntiSpamCheck(1, InputStrings)
    \/ isBlocked_settles(1)
    \/ createWithAntiSpamCheck_resume(1)
    \/ getParts(1)

Spec == Init /\ [][Next]_vars

\* the User aggregate: one caller, the addresses of the unit tests
NextUser ==
    \/ createWithValidation(1, UserEmailStrings, NameStrings, IdArguments)
    \/ isBlocked_settles(1)
    \/ createWithAntiSpamCheck_resume(1)
    \/ createWithValidation_resume(1)

SpecUser == Init /\ [][NextUser]_vars

\* the addresses the Emails of the aggregate's life are built from
AggregateEmailStrings ==
    { <<"a", "@", "a", ".", "a">>, <<"a*", "@", "a", ".", "I">> }

\* the life of the aggregate: one caller, one call after the other, building
\* Emails and Users and updating the Users
NextAggregate ==
    \/ Email_create(1, AggregateEmailStrings)
    \/ createWithValidation(1, AggregateEmailStrings, {"John Doe"}, {NoId})
    \/ isBlocked_settles(1)
    \/ createWithAntiSpamCheck_resume(1)
    \/ createWithValidation_resume(1)
    \/ create(1)
    \/ reconstitute_call(1)
    \/ updateEmail_call(1)
    \/ updateName_call(1)
    \/ Returned(1)

SpecAggregate == Init /\ [][NextAggregate]_vars

\* the addresses of the calls in flight together: two valid ones with
\* different values and an invalid one
ConcurrentEmailStrings ==
    { <<"A", "@", "a", ".", "a">>, <<"a*", "@", "a", ".", "a">>, <<"a", ".", "a">> }

\* several callers, each with one call, the calls interleaved at their awaits
NextConcurrent ==
    \E c \in Calls :
      \/ createWithAntiSpamCheck(c, ConcurrentEmailStrings)
      \/ createWithValidation(c, ConcurrentEmailStrings, {"John Doe", ""}, {NoId})
      \/ isBlocked_settles(c)
      \/ createWithAntiSpamCheck_resume(c)
      \/ createWithValidation_resume(c)

SpecConcurrent == Init /\ [][NextConcurrent]_vars

\* index.js: one caller, one call of calculateTotal
NextTotal == calculateTotal_call(1)

SpecTotal == Init /\ [][NextTotal]_vars

\* the steps of the feature file, in any order
NextScenario ==
    \/ Given_initialized
    \/ Given_validUserData
    \/ Given_invalidUserData
    \/ Given_userData
    \/ Given_userExists
    \/ When_create
    \/ When_attempt
    \/ When_update

SpecScenario == Init /\ [][NextScenario]_vars

\* the composition root: the environment changes, setupDIContainer is called
NextContainer ==
    \/ setApiKey
    \/ setupDIContainer_call

SpecContainer == Init /\ [][NextContainer]_vars


(* ------------------------------ properties ----------------------------- *)

Done(c, op) == calls[c].pc = "done" /\ calls[c].op = op

\* C1: Email construction never raises: every Email.create call completes
\* by returning a value, never by throwing to its caller.
C1_CreateNeverThrows ==
    \A c \in Calls :
      Done(c, "Email.create") => calls[c].outcome.how = "returned"

\* C2: for every string whose trimmed form is not valid, Email.create ends
\* in the invalid-format failure and produces no Email instance.
C2_InvalidInputIsInvalidFormat ==
    \A c \in Calls :
      Done(c, "Email.create") /\ ~isValid(trim(calls[c].emailString))
        => /\ calls[c].outcome.error = InvalidFormat
           /\ calls[c].outcome.detail = calls[c].emailString
           /\ calls[c].outcome.email = {}
           /\ emails = {}

\* an Email.create call has ended on a trimmed string the dots check alone
\* rejects
C2_Witness ==
    \E c \in Calls :
      /\ Done(c, "Email.create")
      /\ hasConsecutiveDots(trim(calls[c].emailString))
      /\ EMAIL_REGEX_test(trim(calls[c].emailString))
      /\ calls[c].outcome.error = InvalidFormat

\* C3: for every string whose trimmed form is valid, Email.create succeeds
\* and the Email's value is the trimmed string lower-cased.
C3_ValidInputIsNormalized ==
    \A c \in Calls :
      Done(c, "Email.create") /\ isValid(trim(calls[c].emailString))
        => /\ calls[c].outcome.how = "returned"
           /\ calls[c].outcome.error = NoError
           /\ calls[c].outcome.email = {toLowerCase(trim(calls[c].emailString))}
           /\ emails = calls[c].outcome.email

\* an Email.create call has succeeded on a string that had both blanks to
\* trim and upper-case letters to lower, as '  TEST@EXAMPLE.COM  ' has
C3_Witness ==
    \E c \in Calls :
      /\ Done(c, "Email.create")
      /\ calls[c].outcome.how = "returned"
      /\ trim(calls[c].emailString) # calls[c].emailString
      /\ \E k \in 1 .. Len(calls[c].emailString) : calls[c].emailString[k] = "A"
      /\ calls[c].outcome.email = {<<"a", "@", "a", ".", "a">>}

\* C4: every Email instance holds a value that is structurally valid and
\* normalized: non-empty, at most 254 characters, of the local@domain.tld
\* shape, without '..', without blanks around it, and lower-cased.
C4_EmailValueValid ==
    \A value \in emails :
      /\ isValid(value)
      /\ trim(value) = value
      /\ toLowerCase(value) = value

\* C5: Email.createWithAntiSpamCheck never calls isBlocked on a
\* structurally invalid input: the call count of the gate stays 0.
C5_NoGateCallOnInvalid ==
    \A c \in Calls :
      /\ calls[c].op = "Email.createWithAntiSpamCheck"
      /\ ~isValid(calls[c].emailString) \/ ~isValid(trim(calls[c].emailString))
      => Len(calls[c].gateArgs) = 0 /\ calls[c].gate = "none"

\* an Email.createWithAntiSpamCheck call has ended on an invalid input
C5_Witness ==
    \E c \in Calls :
      /\ Done(c, "Email.createWithAntiSpamCheck")
      /\ ~isValid(trim(calls[c].emailString))
      /\ calls[c].outcome.how = "rejected"
      /\ calls[c].gateArgs = <<>>

\* C6: with a gate that rejects nothing, Email.createWithAntiSpamCheck
\* succeeds exactly when Email.create succeeds on the same string, and with
\* the same value.
C6_SameDecisionAsCreate ==
    \A c \in Calls :
      Done(c, "Email.createWithAntiSpamCheck") /\ calls[c].gate \in {"none", "false"}
        => /\ (calls[c].outcome.how = "fulfilled")
                <=> (Email_constructor(calls[c].emailString).how = "returned")
           /\ calls[c].outcome.email = Email_constructor(calls[c].emailString).email

\* C7: every argument passed to isBlocked is the normalized value, trimmed
\* and lower-cased, the value the resulting Email would hold.
C7_GateGetsNormalizedValue ==
    \A c \in Calls :
      \A k \in 1 .. Len(calls[c].gateArgs) :
        calls[c].gateArgs[k] = toLowerCase(trim(calls[c].emailString))

\* C8: when isBlocked resolves true the call ends in the 'Email is blocked
\* or blacklisted' failure, which is not the invalid-format one, and no
\* Email is produced; when it resolves false the Email is produced.
C8_GateAnswerDecides ==
    \A c \in Calls :
      Done(c, "Email.createWithAntiSpamCheck")
        => /\ calls[c].gate = "true"
                => /\ calls[c].outcome.how = "rejected"
                   /\ calls[c].outcome.error = Blocked
                   /\ calls[c].outcome.error # InvalidFormat
                   /\ calls[c].outcome.email = {}
                   /\ emails = {}
           /\ calls[c].gate = "false"
                => /\ calls[c].outcome.how = "fulfilled"
                   /\ calls[c].outcome.error = NoError
                   /\ calls[c].outcome.email # {}
                   /\ emails = calls[c].outcome.email

\* an Email.createWithAntiSpamCheck call has ended after isBlocked resolved
\* true
C8_Witness ==
    \E c \in Calls :
      /\ Done(c, "Email.createWithAntiSpamCheck")
      /\ calls[c].gate = "true"
      /\ isValid(calls[c].emailString)
      /\ calls[c].outcome.error = Blocked

\* the failure kind the specification reserves for a gate that gave no answer
PolicyCheckFailed == "Policy check failed"

\* C9: when the isBlocked call itself fails, the caller receives the
\* PolicyCheckFailed failure; the gate's own error does not escape.
C9_GateFailureIsPolicyCheckFailed ==
    \A c \in Calls :
      Done(c, "Email.createWithAntiSpamCheck") /\ calls[c].gate = "failed"
        => /\ calls[c].outcome.error = PolicyCheckFailed
           /\ calls[c].outcome.error # GateError

\* the calls that produced a User
CallsWithUser == {c \in Calls : calls[c].outcome.user # {}}

\* C10: User.createWithValidation is fail-fast, email before name: a failed
\* email build is the outcome whatever the name, so that with both invalid
\* the failure is the email's invalid-format one; with the email built and
\* the name invalid the failure is the name's; in each case no User is made.
C10_FailFastEmailFirst ==
    /\ Len(users) = Cardinality(CallsWithUser)
    /\ \A c \in Calls :
         Done(c, "User.createWithValidation")
           => /\ calls[c].inner.how = "rejected"
                   => /\ calls[c].outcome = calls[c].inner
                      /\ ~calls[c].nameChecked
                      /\ calls[c].outcome.user = {}
              /\ ~isValid(trim(calls[c].emailString)) /\ ~UserName_isValid(calls[c].nameString)
                   => /\ calls[c].outcome.how = "rejected"
                      /\ calls[c].outcome.error = InvalidFormat
                      /\ calls[c].outcome.user = {}
              /\ calls[c].inner.how = "fulfilled" /\ ~UserName_isValid(calls[c].nameString)
                   => /\ calls[c].outcome.how = "rejected"
                      /\ calls[c].outcome.error = NameError
                      /\ calls[c].outcome.user = {}

\* a User.createWithValidation call has ended with both the email and the
\* name invalid
C10_Witness ==
    \E c \in Calls :
      /\ Done(c, "User.createWithValidation")
      /\ ~isValid(trim(calls[c].emailString))
      /\ ~UserName_isValid(calls[c].nameString)
      /\ calls[c].outcome.error = InvalidFormat
      /\ users = <<>>

\* C11: for every structurally valid email string (one the Email builder
\* accepts, that is, valid once trimmed), valid name and gate that does not
\* block it, User.createWithValidation yields a User whose email is the
\* normalized form of the string and whose name is the name given.
C11_ValidInputsYieldUser ==
    \A c \in Calls :
      /\ Done(c, "User.createWithValidation")
      /\ isValid(trim(calls[c].emailString))
      /\ UserName_isValid(calls[c].nameString)
      /\ calls[c].gate \in {"none", "false"}
      => /\ calls[c].outcome.how = "fulfilled"
         /\ calls[c].outcome.error = NoError
         /\ \E u \in calls[c].outcome.user :
              /\ u \in 1 .. Len(users)
              /\ users[u].email = toLowerCase(trim(calls[c].emailString))
              /\ users[u].name = calls[c].nameString

\* C12: every User instance, however obtained (User.create,
\* createWithValidation, reconstitute, updateEmail, updateName, in any
\* sequence), holds only valid component scalars: its email is a valid and
\* normalized value and its name is a validated name.
C12_UserHoldsValidScalars ==
    \A u \in 1 .. Len(users) :
      /\ isValid(users[u].email)
      /\ trim(users[u].email) = users[u].email
      /\ toLowerCase(users[u].email) = users[u].email
      /\ UserName_isValid(users[u].name)

\* C13: partial construction is never observable: while a
\* User.createWithValidation call has not ended there is no User of it; a
\* User exists only once the gate has answered that the address is not
\* blocked and the name has been validated; a call in which a step failed,
\* or whose gate has not answered, has produced no User.
C13_NoPartialUser ==
    /\ Len(users) = Cardinality(CallsWithUser)
    /\ \A c \in Calls :
         calls[c].op = "User.createWithValidation"
           => /\ calls[c].pc # "done" => calls[c].outcome.user = {}
              /\ calls[c].gate \in {"none", "pending", "true", "failed"}
                   => calls[c].outcome.user = {}
              /\ calls[c].outcome.how = "rejected" => calls[c].outcome.user = {}
              /\ calls[c].outcome.user # {}
                   => /\ calls[c].pc = "done"
                      /\ calls[c].gate = "false"
                      /\ calls[c].inner.how = "fulfilled"
                      /\ calls[c].nameChecked
                      /\ UserName_isValid(calls[c].nameString)

\* a User.createWithValidation call has ended without a User after the gate
\* let the address through and the name was found invalid
C13_Witness ==
    \E c \in Calls :
      /\ Done(c, "User.createWithValidation")
      /\ calls[c].gate = "false"
      /\ calls[c].inner.how = "fulfilled"
      /\ calls[c].outcome.error = NameError
      /\ calls[c].outcome.user = {}
      /\ users = <<>>

\* C14: User.create(email, name, id?) on validated scalars never fails; the
\* User holds the scalars given; its id is the supplied id when one is given
\* and a freshly generated one otherwise; createdAt and updatedAt are the
\* same instant, the one of the call.
C14_CreateIsTotal ==
    \A c \in Calls :
      Done(c, "User.create")
        => /\ calls[c].outcome.how = "returned"
           /\ calls[c].outcome.error = NoError
           /\ \E u \in calls[c].outcome.user :
                /\ u \in 1 .. Len(users)
                /\ users[u].email \in calls[c].emailArg
                /\ users[u].name \in calls[c].nameArg
                /\ calls[c].id # NoId => users[u].id = calls[c].id
                /\ calls[c].id = NoId
                     => /\ users[u].id # NoId
                        /\ \A v \in 1 .. Len(users) :
                             v # u => users[v].id # users[u].id
                /\ users[u].createdAt = users[u].updatedAt
                /\ users[u].createdAt \in calls[c].at

\* a User.create call given an id has returned a User with that id, after a
\* User with a generated id was made
C14_Witness ==
    \E c \in Calls :
      /\ Done(c, "User.create")
      /\ calls[c].id = <<"supplied", 1>>
      /\ Len(users) = 2
      /\ users[1].id = UserId_generate(0)
      /\ users[2].id = <<"supplied", 1>>
      /\ calls[c].outcome.user = {2}

\* the update methods
UpdateOps == {"User.updateEmail", "User.updateName"}

\* C15: updateEmail and updateName never mutate the User they are called
\* on: whatever is called, every User there is keeps its id, email, name,
\* createdAt and updatedAt; and each update call returns a new User, distinct
\* from the one it was called on.
C15_UpdatesNeverMutate ==
    [][/\ \A u \in 1 .. Len(users) :
            u \in 1 .. Len(users') /\ users'[u] = users[u]
       /\ \A c \in Calls :
            calls[c].pc = "idle" /\ calls'[c].pc = "done" /\ calls'[c].op \in UpdateOps
              => /\ Len(users') = Len(users) + 1
                 /\ calls'[c].outcome.user = {Len(users')}
                 /\ calls'[c].receiver \in 1 .. Len(users)
                 /\ calls'[c].receiver \notin calls'[c].outcome.user]_vars

\* an updateEmail call on the first User has returned a second User with
\* another email, and the first User has the email it had
C15_Witness ==
    \E c \in Calls :
      /\ Done(c, "User.updateEmail")
      /\ calls[c].receiver = 1
      /\ calls[c].outcome.user = {2}
      /\ Len(users) = 2
      /\ users[1].email # users[2].email
      /\ users[2].email \in calls[c].emailArg

\* C16: the User updateEmail(e) returns differs from the User it was called
\* on only in email, which is e, and in updatedAt, which is the instant of
\* the call; id, name and createdAt are carried over. The same holds of
\* updateName, with name in the place of email.
C16_UpdateChangesOneField ==
    \A c \in Calls :
      /\ Done(c, "User.updateEmail")
           => \E r \in calls[c].outcome.user, e \in calls[c].emailArg, t \in calls[c].at :
                users[r] = [users[calls[c].receiver] EXCEPT !.email = e, !.updatedAt = t]
      /\ Done(c, "User.updateName")
           => \E r \in calls[c].outcome.user, n \in calls[c].nameArg, t \in calls[c].at :
                users[r] = [users[calls[c].receiver] EXCEPT !.name = n, !.updatedAt = t]

\* an updateName call made at a later instant than the User was created has
\* returned a User with another name and that instant as updatedAt
C16_Witness ==
    \E c \in Calls :
      /\ Done(c, "User.updateName")
      /\ calls[c].receiver = 1
      /\ calls[c].outcome.user = {2}
      /\ users[2].name # users[1].name
      /\ users[2].updatedAt > users[1].updatedAt
      /\ users[2].createdAt = users[1].createdAt
      /\ users[2].id = users[1].id

\* C17: equals is identity by id: two Users are equal exactly when their
\* ids are, whatever else they hold; a User and the User an update of it
\* returned are equal; two Users with different ids are not equal even with
\* the same email and name.
C17_EqualsIsIdentityById ==
    /\ \A u, v \in 1 .. Len(users) :
         /\ User_equals(users[u], users[v]) <=> users[u].id = users[v].id
         /\ users[u].id # users[v].id /\ users[u].email = users[v].email
               /\ users[u].name = users[v].name
              => ~User_equals(users[u], users[v])
    /\ \A c \in Calls :
         calls[c].pc = "done" /\ calls[c].op \in UpdateOps
           => \A r \in calls[c].outcome.user :
                /\ User_equals(users[calls[c].receiver], users[r])
                /\ User_equals(users[r], users[calls[c].receiver])

\* an updateEmail call has returned a User with another email than the User
\* it was called on, and the two are equal
C17_Witness ==
    \E c \in Calls :
      /\ Done(c, "User.updateEmail")
      /\ \E r \in calls[c].outcome.user :
           /\ users[r].email # users[calls[c].receiver].email
           /\ User_equals(users[calls[c].receiver], users[r])

\* C18: Email.create is idempotent on its own output: for every string it
\* accepts, Email.create on the value of the resulting Email succeeds too
\* and gives an Email with the same value.
C18_CreateIsIdempotent ==
    \A c \in Calls :
      Done(c, "Email.create") /\ calls[c].outcome.how = "returned"
        => \A value \in calls[c].outcome.email :
             /\ Email_constructor(value).how = "returned"
             /\ Email_constructor(value).email = {value}

\* C19: for every constructed Email, its local part, an '@' and its domain
\* put together are its value.
C19_PartsRoundTrip ==
    \A c \in Calls :
      \A value \in calls[c].outcome.email, p \in calls[c].parts :
        p.localPart \o <<"@">> \o p.domain = value

\* the parts of an Email of the longest kind, built by Email.create, have
\* been asked: the local part is the run before the '@', the domain the rest
C19_Witness ==
    \E c \in Calls :
      /\ Done(c, "Email.create")
      /\ calls[c].outcome.email = {<<"a*", "@", "a", ".", "a">>}
      /\ calls[c].parts = {[localPart |-> <<"a*">>, domain |-> <<"a", ".", "a">>]}

\* the completion of Email.createWithAntiSpamCheck(email, gate) run alone,
\* the gate answering answer if it is asked
Alone(email, answer) ==
    IF ~PassesFormatCheck(email)
    THEN Completion("rejected", InvalidFormat, email, {}, {})
    ELSE AfterIsBlocked(email, answer)

\* C20: concurrent constructions do not interfere: however the calls of
\* Email.createWithAntiSpamCheck and User.createWithValidation in flight
\* together are interleaved, each call ends with the outcome and the value
\* it has when run alone on its own input with the gate answer it was given,
\* its gate is asked about its own input only, and each User made is the
\* User of one call.
C20_NoInterference ==
    \A c \in Calls :
      /\ calls[c].gateArgs \in {<<>>, <<isBlockedArgument(calls[c].emailString)>>}
      /\ Done(c, "Email.createWithAntiSpamCheck")
           => /\ calls[c].outcome = Alone(calls[c].emailString, calls[c].gate)
              /\ calls[c].outcome.email \subseteq emails
      /\ Done(c, "User.createWithValidation")
           => LET alone == AfterEmail(Alone(calls[c].emailString, calls[c].gate),
                                      calls[c].nameString, 0).completion
              IN  /\ calls[c].inner = Alone(calls[c].emailString, calls[c].gate)
                  /\ calls[c].outcome.how = alone.how
                  /\ calls[c].outcome.error = alone.error
                  /\ calls[c].outcome.detail = alone.detail
                  /\ alone.how = "rejected" => calls[c].outcome.user = {}
                  /\ alone.how = "fulfilled"
                       => \E u \in calls[c].outcome.user :
                            /\ u \in 1 .. Len(users)
                            /\ users[u].email \in calls[c].inner.email
                            /\ users[u].name = calls[c].nameString
                            /\ \A d \in Calls \ {c} : u \notin calls[d].outcome.user

\* two calls on different addresses are in flight together: a
\* User.createWithValidation whose email has been built and an
\* Email.createWithAntiSpamCheck whose gate has answered
C20_Witness ==
    \E c, d \in Calls :
      /\ calls[c].op = "User.createWithValidation"
      /\ calls[c].pc = "awaitEmail"
      /\ calls[c].inner.email = {<<"a", "@", "a", ".", "a">>}
      /\ calls[d].op = "Email.createWithAntiSpamCheck"
      /\ calls[d].pc = "awaitGate"
      /\ calls[d].gate = "false"
      /\ calls[d].emailString = <<"a*", "@", "a", ".", "a">>

\* the sum of price * quantity over the elements, from the last to the first
RECURSIVE SumOver(_)
SumOver(elements) ==
    IF elements = <<>>
    THEN 0
    ELSE elements[Len(elements)].price.n * elements[Len(elements)].quantity.n
           + SumOver(SubSeq(elements, 1, Len(elements) - 1))

\* every element is an object whose price and quantity are numbers
AllNumeric(elements) ==
    \A k \in 1 .. Len(elements) :
      /\ elements[k].kind = "object"
      /\ elements[k].price.type = "number"
      /\ elements[k].quantity.type = "number"

\* C21: for every array of items whose price and quantity are all numbers,
\* calculateTotal returns the sum over the items of price * quantity, which
\* is 0 for the empty array.
C21_TotalIsSum ==
    \A c \in Calls :
      Done(c, "calculateTotal")
        => \A items \in calls[c].items :
             items.isArray /\ AllNumeric(items.elements)
               => /\ calls[c].outcome.how = "returned"
                  /\ calls[c].total = {SumOver(items.elements)}
                  /\ items.elements = <<>> => calls[c].total = {0}

\* calculateTotal has returned the total of two items with different prices
\* and quantities
C21_Witness ==
    \E c \in Calls :
      /\ Done(c, "calculateTotal")
      /\ \E items \in calls[c].items :
           /\ items.isArray
           /\ items.elements =
                <<[kind |-> "object", price |-> Number(2), quantity |-> Number(1)],
                  [kind |-> "object", price |-> Number(1), quantity |-> Number(2)]>>
      /\ calls[c].total = {4}

\* an object with a price or a quantity that is not a number
HasNonNumeric(item) ==
    /\ item.kind = "object"
    /\ item.price.type # "number" \/ item.quantity.type # "number"

\* C22: calculateTotal fails with 'Items must be an array' for every
\* argument that is no array; for an array it fails with 'Each item must
\* have numeric price and quantity' exactly when at least one item has a
\* non-numeric price or quantity; a call that fails returns no total.
C22_TotalErrors ==
    \A c \in Calls :
      Done(c, "calculateTotal")
        => \A items \in calls[c].items :
             /\ ~items.isArray
                  => /\ calls[c].outcome.how = "thrown"
                     /\ calls[c].outcome.error = ItemsMustBeArray
             /\ items.isArray
                  => ((calls[c].outcome.how = "thrown"
                         /\ calls[c].outcome.error = EachItemNumeric)
                       <=> \E k \in 1 .. Len(items.elements) :
                             HasNonNumeric(items.elements[k]))
             /\ calls[c].outcome.how = "thrown" => calls[c].total = {}

\* C23: for every row of the examples table of 'Validate email formats',
\* running 'I attempt to create a new user' on the row's email gives the
\* row's result: success (a user, no error) or failure (an error, no user).
C23_ExamplesTable ==
    \A k \in DOMAIN Examples :
      /\ scenario.initialized
      /\ scenario.step = "I attempt to create a new user"
      /\ scenario.userData.kind = "object"
      /\ scenario.userData.email = {Examples[k].email}
      => ResultShouldBe(scenario, Examples[k].result)

\* the positions of character in s
Positions(s, character) == {k \in 1 .. Len(s) : s[k] = character}

\* s has exactly one '@', text before it, and after it a domain with a '.'
\* that has text on both sides; s has no blank
OneAtAndDottedDomain(s) ==
    /\ Cardinality(Positions(s, "@")) = 1
    /\ \A i \in Positions(s, "@") :
         /\ i > 1
         /\ \E j \in Positions(s, ".") : i + 1 < j /\ j < Len(s)
    /\ Positions(s, " ") = {}

\* C24: every string Email.isValid accepts has exactly one '@', a non-empty
\* local part before it, after it a domain with at least one '.' with text
\* on both sides, and no whitespace; hence the value of every constructed
\* Email splits at '@' in two, and getLocalPart and getDomain are both
\* defined and non-empty.
C24_ValidHasOneAt ==
    \A c \in Calls :
      /\ \A s \in {calls[c].emailString, trim(calls[c].emailString)} :
           isValid(s) => OneAtAndDottedDomain(s)
      /\ \A value \in calls[c].outcome.email :
           /\ Cardinality(Positions(value, "@")) = 1
           /\ Len(split(value, "@")) = 2
      /\ \A p \in calls[c].parts :
           /\ p.localPart \notin {<<>>, Undefined}
           /\ p.domain \notin {<<>>, Undefined}

\* the parts of an Email built by Email.createWithAntiSpamCheck from an
\* address with upper-case letters have been asked, and both are there
C24_Witness ==
    \E c \in Calls :
      /\ Done(c, "Email.createWithAntiSpamCheck")
      /\ calls[c].emailString = <<"A", "@", "a", ".", "a">>
      /\ calls[c].parts = {[localPart |-> <<"a">>, domain |-> <<"a", ".", "a">>]}

\* the operations that consult the gate
GatedOps == {"Email.createWithAntiSpamCheck", "User.createWithValidation"}

\* C25: each Email.createWithAntiSpamCheck call and each
\* User.createWithValidation call invokes isBlocked at most once, and
\* exactly once when its email is structurally valid (valid once trimmed,
\* as the Email builder decides).
C25_GateCalledOnce ==
    \A c \in Calls :
      calls[c].op \in GatedOps
        => /\ Len(calls[c].gateArgs) <= 1
           /\ calls[c].pc = "done" /\ isValid(trim(calls[c].emailString))
                => Len(calls[c].gateArgs) = 1

\* C26: policy checking only narrows acceptance: whenever
\* Email.createWithAntiSpamCheck yields an Email, Email.create on the same
\* string yields an Email with an equal value; Email.create never consults
\* a gate, so a valid address the gate blocks is created by Email.create
\* and rejected by Email.createWithAntiSpamCheck.
C26_GateOnlyNarrows ==
    \A c \in Calls :
      /\ Done(c, "Email.createWithAntiSpamCheck") /\ calls[c].outcome.how = "fulfilled"
           => /\ Email_constructor(calls[c].emailString).how = "returned"
              /\ Email_constructor(calls[c].emailString).email = calls[c].outcome.email
      /\ calls[c].op = "Email.create"
           => calls[c].gate = "none" /\ calls[c].gateArgs = <<>>
      /\ Done(c, "Email.createWithAntiSpamCheck") /\ calls[c].gate = "true"
           => /\ calls[c].outcome.how = "rejected"
              /\ calls[c].outcome.email = {}
              /\ Email_constructor(calls[c].emailString).how = "returned"

\* Email.createWithAntiSpamCheck has rejected, on the word of the gate, an
\* address with upper-case letters that Email.create turns into an Email
C26_Witness ==
    \E c \in Calls :
      /\ Done(c, "Email.createWithAntiSpamCheck")
      /\ calls[c].emailString = <<"A", "@", "a", ".", "a">>
      /\ calls[c].gate = "true"
      /\ calls[c].outcome.how = "rejected"
      /\ Email_constructor(calls[c].emailString).email = {<<"a", "@", "a", ".", "a">>}

\* C27: in User.createWithValidation the name is validated only after the
\* gate has answered: with a structurally valid email that is not blocked
\* and an invalid name the gate is invoked once and the call fails with the
\* name's failure; with an invalid or blocked email the name is never
\* validated.
C27_NameAfterGate ==
    \A c \in Calls :
      calls[c].op = "User.createWithValidation"
        => /\ calls[c].nameChecked
                => calls[c].gate = "false" /\ Len(calls[c].gateArgs) = 1
           /\ /\ calls[c].pc = "done"
              /\ isValid(trim(calls[c].emailString))
              /\ calls[c].gate \in {"none", "false"}
              /\ ~UserName_isValid(calls[c].nameString)
              => /\ Len(calls[c].gateArgs) = 1
                 /\ calls[c].nameChecked
                 /\ calls[c].outcome.how = "rejected"
                 /\ calls[c].outcome.error = NameError
           /\ /\ calls[c].pc = "done"
              /\ ~isValid(trim(calls[c].emailString)) \/ calls[c].gate = "true"
              => ~calls[c].nameChecked

\* C28: with a clock that does not go back, every User made by User.create
\* or User.createWithValidation, or derived from one by updateEmail and
\* updateName, has updatedAt >= createdAt, and the User an update returns
\* has an updatedAt that is not before that of the User it was called on.
C28_TimestampsOrdered ==
    /\ \A u \in 1 .. Len(users) :
         /\ users[u].updatedAt >= users[u].createdAt
         /\ users[u].updatedAt <= now
    /\ \A c \in Calls :
         calls[c].pc = "done" /\ calls[c].op \in UpdateOps
           => \A r \in calls[c].outcome.user :
                /\ users[r].updatedAt >= users[calls[c].receiver].updatedAt
                /\ users[r].createdAt = users[calls[c].receiver].createdAt

\* an updateEmail call made after the clock moved has returned a User whose
\* updatedAt is later than its createdAt and than the updatedAt of the User
\* it was called on
C28_Witness ==
    \E c \in Calls :
      /\ Done(c, "User.updateEmail")
      /\ \E r \in calls[c].outcome.user :
           /\ users[r].updatedAt > users[r].createdAt
           /\ users[r].updatedAt > users[calls[c].receiver].updatedAt

\* C29: setupDIContainer('production') with ANTI_SPAM_API_KEY unset fails
\* with 'ANTI_SPAM_API_KEY environment variable is required' and leaves the
\* registrations of 'AntiSpamPort' as they were; setupDIContainer('test')
\* binds the mock adapter; setupDIContainer('integration') always binds the
\* real adapter, with 'test-key' when the variable is unset. (A step that
\* leaves the variable alone is a call of setupDIContainer.)
C29_ContainerSetup ==
    [][container'.apiKey = container.apiKey
         => LET call == container'.last
                before == container.registrations
                after == container'.registrations
            IN  /\ call.environment = "production" /\ container.apiKey = {}
                     => /\ call.how = "thrown"
                        /\ call.error = ApiKeyRequired
                        /\ after = before
                /\ call.environment = "test"
                     => /\ call.how = "returned"
                        /\ after = Append(before, MockRegistration)
                /\ call.environment = "integration"
                     => /\ call.how = "returned"
                        /\ Len(after) = Len(before) + 1
                        /\ SubSeq(after, 1, Len(before)) = before
                        /\ after[Len(after)].adapter = "RealAntiSpamAdapter"
                        /\ container.apiKey = {}
                             => after[Len(after)].apiKey = {"test-key"}]_vars

\* setupDIContainer('production') has failed with the variable unset, after
\* setupDIContainer('test') had bound the mock adapter, which is still bound
C29_Witness ==
    /\ container.last = [environment |-> "production", how |-> "thrown",
                         error |-> ApiKeyRequired]
    /\ container.apiKey = {}
    /\ container.registrations = <<MockRegistration>>

\* C30: after any sequence of Given and When steps that follows 'the
\* system is initialized', the shared state is well-formed: createdUser and
\* error are never both non-null; a failed creation attempt leaves
\* createdUser null; and a createdUser that is not null has an id and an
\* email, also after 'I update the user email to' run with no user.
C30_ScenarioStateWellFormed ==
    scenario.initialized
      => /\ ~(scenario.createdUser # NullValue /\ scenario.error # {})
         /\ scenario.step = "I attempt to create a new user" /\ scenario.error # {}
              => scenario.createdUser = NullValue
         /\ scenario.createdUser # NullValue
              => scenario.createdUser.id # {} /\ scenario.createdUser.email # {}

=============================================================================
